---- MODULE Spec2Model ----
(***************************************************************************)
(* A model of the expression engine of the Infix/Postfix/Prefix converter: *)
(* the token classifier (logic/constants.ts), the Stack class              *)
(* (logic/stack.ts) and the eight operations of logic/algorithms.ts, as    *)
(* whole calls (Spec) and token by token with two calls in progress        *)
(* (RunSpec); of one Stack object (StackSpec); and of the state of the     *)
(* App component that the step index depends on (AppSpec).                 *)
(*                                                                         *)
(* A JavaScript string is modelled as the sequence of its UTF-16 code      *)
(* units, each written as a one-character TLA+ string: "A+B" is            *)
(* <<"A", "+", "B">>.  The value undefined is the one-element tuple        *)
(* <<"undefined">>, which is no string of the model (its element is not a  *)
(* single character) and no number of the model (numbers are pairs).       *)
(***************************************************************************)
EXTENDS Integers, Sequences, FiniteSets, TLC

VARIABLES
    expression,   \* engine: the argument of the call
    operation,    \* engine: the operation called, "none" before the call
    steps,        \* engine: the returned trace
    result,       \* engine: the returned result
    items,        \* Stack object: its private array, bottom to top
    returned,     \* Stack object: what the last method call returned
    lastCall,     \* Stack object: the last method called
    pushed,       \* Stack object (history): the elements pushed, in order
    popped,       \* Stack object (history): the elements pop has returned, in order
    app,          \* App component: its React state
    invocation,   \* stepwise engine: the locals of each call in progress
    stackOf,      \* stepwise engine: the items of each Stack constructed
    stackAfter    \* stepwise engine (history): the stack after each step of each call

vars == <<expression, operation, steps, result, items, returned, lastCall, pushed, popped,
          app, invocation, stackOf, stackAfter>>
runVars == <<invocation, stackOf, stackAfter>>
engineVars == <<expression, operation, steps, result>>
stackVars == <<items, returned, lastCall, pushed, popped>>

(***************************************************************************)
(* Bounds of the model.                                                    *)
(***************************************************************************)
MaxLen == 3          \* longest input drawn from the whole alphabet
MaxOps == 2          \* most operators in a generated expression tree
MaxPushes == 4       \* most push calls on the Stack object
MaxProcess == 1      \* most presses of the process button
ExactLimit == 4096   \* numerators and denominators computed exactly

(***************************************************************************)
(* Strings.                                                                *)
(***************************************************************************)
Undefined == <<"undefined">>

\* String(undefined), as a template literal `${x}` or += renders it.
UndefinedText == <<"u", "n", "d", "e", "f", "i", "n", "e", "d">>

\* `${v}` for v a string or undefined.
Interpolate(v) == IF v = Undefined THEN UndefinedText ELSE v

RECURSIVE Reverse(_)
\* Array.prototype.reverse on the array of characters.
Reverse(s) == IF s = <<>> THEN <<>> ELSE Append(Reverse(Tail(s)), Head(s))

\* The characters the class \s matches, among those the model draws.
Whitespace == {" ", "\t", "\n", "\r", "\f"}

\* expression.split(''), the whitespace kept.
TokensKeepWhitespace(s) == s

\* expression.replace(/\s+/g, '').split('')
Tokens(s) == SelectSeq(s, LAMBDA c : c \notin Whitespace)

(***************************************************************************)
(* logic/constants.ts                                                      *)
(***************************************************************************)
Digit == {"0", "1", "2", "3", "4", "5", "6", "7", "8", "9"}

Letter == {"a", "b", "c", "d", "e", "f", "g", "h", "i", "j", "k", "l", "m",
           "n", "o", "p", "q", "r", "s", "t", "u", "v", "w", "x", "y", "z",
           "A", "B", "C", "D", "E", "F", "G", "H", "I", "J", "K", "L", "M",
           "N", "O", "P", "Q", "R", "S", "T", "U", "V", "W", "X", "Y", "Z"}

PRECEDENCE(c) == CASE c \in {"+", "-"} -> 1
                   [] c \in {"*", "/"} -> 2
                   [] c = "^" -> 3

AllLeftAssociative(c) == "L"

ASSOCIATIVITY(c) == IF c = "^" THEN "R" ELSE "L"

isOperator(c) == c \in {"+", "-", "*", "/", "^"}

\* An operand test that accepts every character but operators and brackets.
isOperandOrUnknown(c) == c \notin {"+", "-", "*", "/", "^", "(", ")"}

isOperand(c) == c \in Letter \cup Digit

(***************************************************************************)
(* logic/stack.ts: the methods as functions of the private array.          *)
(***************************************************************************)
StackNew == <<>>

StackIsEmpty(a) == Len(a) = 0

StackSize(a) == Len(a)

\* push appending the element twice.
StackPushTwice(a, element) == Append(Append(a, element), element)

StackPush(a, element) == Append(a, element)

\* items[0] where the code reads items[items.length - 1].
StackPeekBottom(a) == IF Len(a) = 0 THEN Undefined ELSE a[1]

\* items[items.length - 1]: undefined when the array is empty.
StackPeek(a) == IF Len(a) = 0 THEN Undefined ELSE a[Len(a)]

\* A pop that answers null, not undefined, on the empty stack.
StackPopValueNull(a) == IF StackIsEmpty(a) THEN <<"null">> ELSE a[Len(a)]

\* The value pop() returns.
StackPopValue(a) == IF StackIsEmpty(a) THEN Undefined ELSE a[Len(a)]

\* The array pop() leaves.
StackPopRest(a) == IF StackIsEmpty(a) THEN a ELSE SubSeq(a, 1, Len(a) - 1)

StackToArray(a) == a

(***************************************************************************)
(* infixToPostfix (algorithms.ts 9-54).  The scan state is the record      *)
(* [stack, output, steps].                                                 *)
(***************************************************************************)
RECURSIVE PopUntilEmpty(_, _)
\* The loop of the ')' branch without its test for '('.
PopUntilEmpty(stack, output) ==
    IF ~StackIsEmpty(stack)
    THEN PopUntilEmpty(StackPopRest(stack), Append(output, StackPopValue(stack)))
    ELSE [stack |-> stack, output |-> output]

RECURSIVE PopUntilParen(_, _)
\* while (!stack.isEmpty() && stack.peek() !== '(') output += stack.pop();
PopUntilParen(stack, output) ==
    IF ~StackIsEmpty(stack) /\ StackPeek(stack) # "("
    THEN PopUntilParen(StackPopRest(stack), Append(output, StackPopValue(stack)))
    ELSE [stack |-> stack, output |-> output]

\* The loop condition without its clause for equal precedence.
ShouldPopStrictlyHigher(top, token) == PRECEDENCE(top) > PRECEDENCE(token)

\* PRECEDENCE[top] > PRECEDENCE[token] ||
\* (PRECEDENCE[top] === PRECEDENCE[token] && ASSOCIATIVITY[token] === 'L')
ShouldPop(top, token) ==
    \/ PRECEDENCE(top) > PRECEDENCE(token)
    \/ PRECEDENCE(top) = PRECEDENCE(token) /\ ASSOCIATIVITY(token) = "L"

RECURSIVE PopOperatorsDiscarding(_, _, _)
\* The operator loop popping without output += ...
PopOperatorsDiscarding(stack, output, token) ==
    IF /\ ~StackIsEmpty(stack)
       /\ StackPeek(stack) # "("
       /\ ShouldPop(StackPeek(stack), token)
    THEN PopOperatorsDiscarding(StackPopRest(stack), output, token)
    ELSE [stack |-> stack, output |-> output]

RECURSIVE PopOperators(_, _, _)
\* while (!stack.isEmpty() && stack.peek() !== '(' && (...)) output += stack.pop();
PopOperators(stack, output, token) ==
    IF /\ ~StackIsEmpty(stack)
       /\ StackPeek(stack) # "("
       /\ ShouldPop(StackPeek(stack), token)
    THEN PopOperators(StackPopRest(stack), Append(output, StackPopValue(stack)), token)
    ELSE [stack |-> stack, output |-> output]

\* One entry of a conversion trace.
Step(token, stack, output, action) ==
    [token |-> token, stack |-> StackToArray(stack), output |-> output, action |-> action]

\* The body of tokens.forEach in infixToPostfix.  The action text is kept
\* without the token it quotes.
InfixToken(st, token) ==
    LET after ==
            IF isOperand(token)
            THEN [stack |-> st.stack, output |-> Append(st.output, token),
                  action |-> "Operand added to output"]
            ELSE IF token = "("
            THEN [stack |-> StackPush(st.stack, token), output |-> st.output,
                  action |-> "Left paren pushed to stack"]
            ELSE IF token = ")"
            THEN LET p == PopUntilParen(st.stack, st.output)
                 IN  [stack |-> StackPopRest(p.stack), output |-> p.output,
                      action |-> "Right paren: popping until ("]
            ELSE IF isOperator(token)
            THEN LET p == PopOperators(st.stack, st.output, token)
                 IN  [stack |-> StackPush(p.stack, token), output |-> p.output,
                      action |-> "Operator processed (precedence check)"]
            ELSE [stack |-> st.stack, output |-> st.output, action |-> ""]
    IN  [stack |-> after.stack, output |-> after.output,
         steps |-> Append(st.steps, Step(token, after.stack, after.output, after.action))]

\* One turn of the closing loop: while (!stack.isEmpty()) { ... 'EOF' ... }
InfixFlush(st) ==
    LET op == StackPopValue(st.stack)
        rest == StackPopRest(st.stack)
        output == Append(st.output, op)
    IN  [stack |-> rest, output |-> output,
         steps |-> Append(st.steps, Step("EOF", rest, output, "Popping remaining"))]

RECURSIVE InfixScan(_, _, _)
InfixScan(tokens, i, st) ==
    IF i > Len(tokens) THEN st ELSE InfixScan(tokens, i + 1, InfixToken(st, tokens[i]))

RECURSIVE InfixFlushAll(_)
InfixFlushAll(st) == IF StackIsEmpty(st.stack) THEN st ELSE InfixFlushAll(InfixFlush(st))

infixToPostfix(e) ==
    LET st == InfixFlushAll(InfixScan(Tokens(e), 1,
                  [stack |-> StackNew, output |-> <<>>, steps |-> <<>>]))
    IN  [steps |-> st.steps, result |-> st.output]

(***************************************************************************)
(* infixToPrefix (algorithms.ts 59-77)                                     *)
(***************************************************************************)
\* The map callback: '(' and ')' change places.
SwapParen(c) == IF c = "(" THEN ")" ELSE IF c = ")" THEN "(" ELSE c

\* expression.split('').reverse().join(''), the brackets left as they are.
MirrorWithoutSwap(e) == Reverse(e)

\* expression.split('').reverse().map(...).join('')
Mirror(e) == LET r == Reverse(e) IN [i \in 1..Len(r) |-> SwapParen(r[i])]

infixToPrefix(e) ==
    LET reversed == Mirror(e)
        inner == infixToPostfix(reversed)
        finalResult == Reverse(inner.result)
    IN  [steps |-> <<Step("REVERSE", <<>>, reversed, "Step 1: Reverse input and swap brackets")>>
                   \o inner.steps
                   \o <<Step("FINAL", <<>>, finalResult, "Step 2: Reverse postfix result to get Prefix")>>,
         result |-> finalResult]

(***************************************************************************)
(* The four stack-scan conversions (algorithms.ts 82-181).  They differ in *)
(* the order of the two pops and in how the popped strings are combined.   *)
(***************************************************************************)
\* stack.peek() with the default || "" left out.
PeekWithoutDefault(stack) == StackPeek(stack)

\* stack.peek() || "": the empty string is falsy, as undefined is.
PeekOrEmpty(stack) ==
    IF StackPeek(stack) = Undefined \/ StackPeek(stack) = <<>> THEN <<>> ELSE StackPeek(stack)

\* `(${op1}${token}${op2})`
CombineInfix(op1, token, op2) ==
    <<"(">> \o Interpolate(op1) \o <<token>> \o Interpolate(op2) \o <<")">>

\* `${token}${op1}${op2}`
CombinePrefix(op1, token, op2) == <<token>> \o Interpolate(op1) \o Interpolate(op2)

\* `${op1}${op2}${token}`
CombinePostfix(op1, token, op2) == Interpolate(op1) \o Interpolate(op2) \o <<token>>

\* The two pops of an operator branch: first the value of the first pop.
TwoPops(stack) ==
    LET first == StackPopValue(stack)
        s1 == StackPopRest(stack)
        second == StackPopValue(s1)
        s2 == StackPopRest(s1)
    IN  [first |-> first, second |-> second, stack |-> s2]

\* What a conversion's forEach body does once the new stack is known.
Record(st, token, stack, action) ==
    [stack |-> stack,
     steps |-> Append(st.steps, Step(token, stack, PeekOrEmpty(stack), action))]

\* postfixToInfix with the pops named in the order of prefixToInfix.
PostfixToInfixTokenSwapped(st, token) ==
    IF isOperand(token)
    THEN Record(st, token, StackPush(st.stack, <<token>>), "Push operand")
    ELSE IF isOperator(token)
    THEN LET p == TwoPops(st.stack)
         IN  Record(st, token, StackPush(p.stack, CombineInfix(p.first, token, p.second)),
                    "Pop, pop; Push combined")
    ELSE Record(st, token, st.stack, "")

\* postfixToInfix: op2 = pop(), op1 = pop(), push `(${op1}${token}${op2})`
PostfixToInfixToken(st, token) ==
    IF isOperand(token)
    THEN Record(st, token, StackPush(st.stack, <<token>>), "Push operand")
    ELSE IF isOperator(token)
    THEN LET p == TwoPops(st.stack)
         IN  Record(st, token, StackPush(p.stack, CombineInfix(p.second, token, p.first)),
                    "Pop, pop; Push combined")
    ELSE Record(st, token, st.stack, "")

\* prefixToInfix: op1 = pop(), op2 = pop(), push `(${op1}${token}${op2})`
PrefixToInfixTokenSwapped(st, token) ==
    IF isOperand(token)
    THEN Record(st, token, StackPush(st.stack, <<token>>), "Push operand")
    ELSE IF isOperator(token)
    THEN LET p == TwoPops(st.stack)
         IN  Record(st, token, StackPush(p.stack, CombineInfix(p.second, token, p.first)),
                    "Pop, pop; Push combined")
    ELSE Record(st, token, st.stack, "")

PrefixToInfixToken(st, token) ==
    IF isOperand(token)
    THEN Record(st, token, StackPush(st.stack, <<token>>), "Push operand")
    ELSE IF isOperator(token)
    THEN LET p == TwoPops(st.stack)
         IN  Record(st, token, StackPush(p.stack, CombineInfix(p.first, token, p.second)),
                    "Pop, pop; Push combined")
    ELSE Record(st, token, st.stack, "")

\* postfixToPrefix: op2 = pop(), op1 = pop(), push `${token}${op1}${op2}`
PostfixToPrefixToken(st, token) ==
    IF isOperand(token)
    THEN Record(st, token, StackPush(st.stack, <<token>>), "Push operand")
    ELSE IF isOperator(token)
    THEN LET p == TwoPops(st.stack)
         IN  Record(st, token, StackPush(p.stack, CombinePrefix(p.second, token, p.first)),
                    "Pop, pop; Push combined")
    ELSE Record(st, token, st.stack, "")

\* prefixToPostfix with the operands combined in the order of postfixToPrefix's pops.
PrefixToPostfixTokenSwapped(st, token) ==
    IF isOperand(token)
    THEN Record(st, token, StackPush(st.stack, <<token>>), "Push operand")
    ELSE IF isOperator(token)
    THEN LET p == TwoPops(st.stack)
         IN  Record(st, token, StackPush(p.stack, CombinePostfix(p.second, token, p.first)),
                    "Pop, pop; Push combined")
    ELSE Record(st, token, st.stack, "")

\* prefixToPostfix: op1 = pop(), op2 = pop(), push `${op1}${op2}${token}`
PrefixToPostfixToken(st, token) ==
    IF isOperand(token)
    THEN Record(st, token, StackPush(st.stack, <<token>>), "Push operand")
    ELSE IF isOperator(token)
    THEN LET p == TwoPops(st.stack)
         IN  Record(st, token, StackPush(p.stack, CombinePostfix(p.first, token, p.second)),
                    "Pop, pop; Push combined")
    ELSE Record(st, token, st.stack, "")

ScanStart == [stack |-> StackNew, steps |-> <<>>]

RECURSIVE PostfixToInfixScan(_, _, _)
PostfixToInfixScan(tokens, i, st) ==
    IF i > Len(tokens) THEN st
    ELSE PostfixToInfixScan(tokens, i + 1, PostfixToInfixToken(st, tokens[i]))

RECURSIVE PrefixToInfixScan(_, _, _)
PrefixToInfixScan(tokens, i, st) ==
    IF i > Len(tokens) THEN st
    ELSE PrefixToInfixScan(tokens, i + 1, PrefixToInfixToken(st, tokens[i]))

RECURSIVE PostfixToPrefixScan(_, _, _)
PostfixToPrefixScan(tokens, i, st) ==
    IF i > Len(tokens) THEN st
    ELSE PostfixToPrefixScan(tokens, i + 1, PostfixToPrefixToken(st, tokens[i]))

RECURSIVE PrefixToPostfixScan(_, _, _)
PrefixToPostfixScan(tokens, i, st) ==
    IF i > Len(tokens) THEN st
    ELSE PrefixToPostfixScan(tokens, i + 1, PrefixToPostfixToken(st, tokens[i]))

\* return { steps, result: stack.peek() || "" }
Returned(st) == [steps |-> st.steps, result |-> PeekOrEmpty(st.stack)]

postfixToInfix(e) == Returned(PostfixToInfixScan(Tokens(e), 1, ScanStart))

prefixToInfix(e) == Returned(PrefixToInfixScan(Reverse(Tokens(e)), 1, ScanStart))

postfixToPrefix(e) == Returned(PostfixToPrefixScan(Tokens(e), 1, ScanStart))

prefixToPostfix(e) == Returned(PrefixToPostfixScan(Reverse(Tokens(e)), 1, ScanStart))

(***************************************************************************)
(* JavaScript numbers.  A number is a pair <<n, d>>:                       *)
(*   d >= 1      the finite value n/d in lowest terms (<<0, 1>> is +0)     *)
(*   <<0, -1>>   -0                                                        *)
(*   <<1, 0>>, <<-1, 0>>   +Infinity, -Infinity                            *)
(*   <<0, 0>>    NaN                                                       *)
(* Double arithmetic is exact on dyadic rationals of moderate size; the    *)
(* model computes those results (numerator and denominator up to           *)
(* ExactLimit) and the IEEE special cases.  Any other result is rounded    *)
(* by the hardware: it is kept as the uninterpreted term <<op, a, b>> of   *)
(* the operation and its operands, so two such results are equal in the    *)
(* model only when the same operation was applied to the same operands.    *)
(***************************************************************************)
NaN == <<0, 0>>
PosInf == <<1, 0>>
NegInf == <<-1, 0>>
Zero == <<0, 1>>
NegZero == <<0, -1>>
One == <<1, 1>>
Inexact == <<>>

IsTerm(v) == Len(v) = 3
IsNaN(v) == v = NaN
IsInf(v) == v = PosInf \/ v = NegInf
IsZero(v) == v = Zero \/ v = NegZero
Abs(n) == IF n < 0 THEN -n ELSE n
Sgn(n) == IF n < 0 THEN -1 ELSE 1

\* The sign bit of a number that is not NaN, as +1 or -1.
SignOf(v) == IF v[1] # 0 THEN Sgn(v[1]) ELSE Sgn(v[2])

SignedZero(s) == IF s < 0 THEN NegZero ELSE Zero
SignedInf(s) == IF s < 0 THEN NegInf ELSE PosInf

RECURSIVE Gcd(_, _)
Gcd(a, b) == IF b = 0 THEN a ELSE Gcd(b, a % b)

IsPowerOfTwo(d) == \E k \in 0..30 : 2^k = d

\* The double n/d (n # 0, d > 0) when the model computes it exactly.
Ratio(n, d) ==
    LET g == Gcd(Abs(n), d)
    IN  IF Abs(n) \div g <= ExactLimit /\ d \div g <= ExactLimit /\ IsPowerOfTwo(d \div g)
        THEN <<n \div g, d \div g>>
        ELSE Inexact

\* The denominator of a finite number, 1 for both zeros.
Den(v) == Abs(v[2])

Negate(v) == IF IsNaN(v) THEN v
             ELSE IF IsZero(v) THEN SignedZero(-SignOf(v))
             ELSE <<-v[1], v[2]>>

\* a + b on numbers that are not terms.
Plus(a, b) ==
    IF IsNaN(a) \/ IsNaN(b) THEN NaN
    ELSE IF IsInf(a) THEN (IF IsInf(b) /\ a # b THEN NaN ELSE a)
    ELSE IF IsInf(b) THEN b
    ELSE LET n == a[1] * Den(b) + b[1] * Den(a)
         IN  IF n # 0 THEN Ratio(n, Den(a) * Den(b))
             ELSE IF a = NegZero /\ b = NegZero THEN NegZero ELSE Zero

Times(a, b) ==
    IF IsNaN(a) \/ IsNaN(b) THEN NaN
    ELSE IF IsInf(a) \/ IsInf(b)
    THEN (IF IsZero(a) \/ IsZero(b) THEN NaN ELSE SignedInf(SignOf(a) * SignOf(b)))
    ELSE IF IsZero(a) \/ IsZero(b) THEN SignedZero(SignOf(a) * SignOf(b))
    ELSE Ratio(a[1] * b[1], Den(a) * Den(b))

Quotient(a, b) ==
    IF IsNaN(a) \/ IsNaN(b) THEN NaN
    ELSE IF IsInf(a) THEN (IF IsInf(b) THEN NaN ELSE SignedInf(SignOf(a) * SignOf(b)))
    ELSE IF IsInf(b) THEN SignedZero(SignOf(a) * SignOf(b))
    ELSE IF IsZero(b) THEN (IF IsZero(a) THEN NaN ELSE SignedInf(SignOf(a) * SignOf(b)))
    ELSE IF IsZero(a) THEN SignedZero(SignOf(a) * SignOf(b))
    ELSE Ratio(SignOf(b) * a[1] * Den(b), Den(a) * Abs(b[1]))

RECURSIVE CappedPower(_, _, _)
\* acc * m^k for m >= 0, given up once it passes ExactLimit.
CappedPower(m, k, acc) ==
    IF k = 0 \/ acc > ExactLimit \/ m = 1 THEN acc ELSE CappedPower(m, k - 1, acc * m)

IsOddInteger(v) == v[2] = 1 /\ v[1] % 2 = 1

\* base^k for a finite non-zero base and an integer k # 0.
IntegerPower(base, k) ==
    LET n == CappedPower(Abs(base[1]), Abs(k), 1)
        d == CappedPower(base[2], Abs(k), 1)
        s == IF base[1] < 0 /\ k % 2 = 1 THEN -1 ELSE 1
    IN  IF n > ExactLimit \/ d > ExactLimit THEN Inexact
        ELSE IF k > 0 THEN Ratio(s * n, d) ELSE Ratio(s * d, n)

\* Math.pow(base, exponent) on numbers that are not terms (Number::exponentiate).
Power(base, exponent) ==
    IF IsNaN(exponent) THEN NaN
    ELSE IF IsZero(exponent) THEN One
    ELSE IF IsNaN(base) THEN NaN
    ELSE IF base = PosInf THEN (IF SignOf(exponent) > 0 THEN PosInf ELSE Zero)
    ELSE IF base = NegInf
    THEN (IF SignOf(exponent) > 0
          THEN (IF IsOddInteger(exponent) THEN NegInf ELSE PosInf)
          ELSE (IF IsOddInteger(exponent) THEN NegZero ELSE Zero))
    ELSE IF base = Zero THEN (IF SignOf(exponent) > 0 THEN Zero ELSE PosInf)
    ELSE IF base = NegZero
    THEN (IF SignOf(exponent) > 0
          THEN (IF IsOddInteger(exponent) THEN NegZero ELSE Zero)
          ELSE (IF IsOddInteger(exponent) THEN NegInf ELSE PosInf))
    ELSE IF IsInf(exponent)
    THEN (IF Abs(base[1]) = base[2] THEN NaN
          ELSE IF (Abs(base[1]) > base[2]) = (exponent = PosInf) THEN PosInf ELSE Zero)
    ELSE IF exponent[2] = 1 THEN IntegerPower(base, exponent[1])
    ELSE IF base[1] < 0 THEN NaN
    ELSE IF base = One THEN One
    ELSE Inexact

\* ToNumber of a popped value: undefined becomes NaN.
ToNumber(v) == IF v = Undefined THEN NaN ELSE v

\* The switch with the break after case '*' missing: a * b falls through to a / b.
ComputeMissingBreak(a, token, b) ==
    LET x == ToNumber(a)
        y == ToNumber(b)
        exact == CASE token = "+" -> Plus(x, y)
                   [] token = "-" -> Plus(x, Negate(y))
                   [] token \in {"*", "/"} -> Quotient(x, y)
                   [] token = "^" -> Power(x, y)
    IN  IF token = "^" /\ IsZero(y) THEN One
        ELSE IF IsTerm(x) \/ IsTerm(y) THEN <<token, x, y>>
        ELSE IF exact = Inexact THEN <<token, x, y>> ELSE exact

\* switch (token) { case '+': res = a + b; ... case '^': res = Math.pow(a, b) }
\* Math.pow(x, 0) is 1 whatever x is; otherwise a rounded operand gives a rounded result.
Compute(a, token, b) ==
    LET x == ToNumber(a)
        y == ToNumber(b)
        exact == CASE token = "+" -> Plus(x, y)
                   [] token = "-" -> Plus(x, Negate(y))
                   [] token = "*" -> Times(x, y)
                   [] token = "/" -> Quotient(x, y)
                   [] token = "^" -> Power(x, y)
    IN  IF token = "^" /\ IsZero(y) THEN One
        ELSE IF IsTerm(x) \/ IsTerm(y) THEN <<token, x, y>>
        ELSE IF exact = Inexact THEN <<token, x, y>> ELSE exact

DigitChars == <<"0", "1", "2", "3", "4", "5", "6", "7", "8", "9">>

\* parseInt of a one-character token: NaN unless the character is a digit.
parseInt(token) ==
    IF token \in Digit THEN <<(CHOOSE i \in 1..10 : DigitChars[i] = token) - 1, 1>> ELSE NaN

\* One entry of an evaluation trace.
EvaluationStep(token, stack, action) ==
    [token |-> token, stack |-> StackToArray(stack), action |-> action]

RecordEvaluation(st, token, stack, action) ==
    [stack |-> stack, steps |-> Append(st.steps, EvaluationStep(token, stack, action))]

\* evaluatePostfix with the first pop taken as the left operand.
EvaluatePostfixTokenSwapped(st, token) ==
    IF ~IsNaN(parseInt(token))
    THEN RecordEvaluation(st, token, StackPush(st.stack, parseInt(token)), "Push operand")
    ELSE IF isOperator(token)
    THEN LET p == TwoPops(st.stack)
         IN  RecordEvaluation(st, token,
                 StackPush(p.stack, Compute(p.first, token, p.second)), "Pop, pop; Compute; Push")
    ELSE RecordEvaluation(st, token, st.stack, "")

\* evaluatePostfix: b = pop(), a = pop(), push a OP b
EvaluatePostfixToken(st, token) ==
    IF ~IsNaN(parseInt(token))
    THEN RecordEvaluation(st, token, StackPush(st.stack, parseInt(token)), "Push operand")
    ELSE IF isOperator(token)
    THEN LET p == TwoPops(st.stack)
         IN  RecordEvaluation(st, token,
                 StackPush(p.stack, Compute(p.second, token, p.first)), "Pop, pop; Compute; Push")
    ELSE RecordEvaluation(st, token, st.stack, "")

\* evaluatePrefix: a = pop(), b = pop(), push a OP b
EvaluatePrefixToken(st, token) ==
    IF ~IsNaN(parseInt(token))
    THEN RecordEvaluation(st, token, StackPush(st.stack, parseInt(token)), "Push operand")
    ELSE IF isOperator(token)
    THEN LET p == TwoPops(st.stack)
         IN  RecordEvaluation(st, token,
                 StackPush(p.stack, Compute(p.first, token, p.second)), "Pop, pop; Compute; Push")
    ELSE RecordEvaluation(st, token, st.stack, "")

RECURSIVE EvaluatePostfixScan(_, _, _)
EvaluatePostfixScan(tokens, i, st) ==
    IF i > Len(tokens) THEN st
    ELSE EvaluatePostfixScan(tokens, i + 1, EvaluatePostfixToken(st, tokens[i]))

RECURSIVE EvaluatePrefixScan(_, _, _)
EvaluatePrefixScan(tokens, i, st) ==
    IF i > Len(tokens) THEN st
    ELSE EvaluatePrefixScan(tokens, i + 1, EvaluatePrefixToken(st, tokens[i]))

\* stack.peek() with the default || 0 left out.
PeekNumberWithoutDefault(stack) == StackPeek(stack)

\* stack.peek() || 0: undefined, NaN, +0 and -0 are falsy.
PeekOrZero(stack) ==
    LET top == StackPeek(stack)
    IN  IF top = Undefined \/ IsNaN(top) \/ IsZero(top) THEN Zero ELSE top

\* return { steps, result: stack.peek() || 0 }
ReturnedNumber(st) == [steps |-> st.steps, result |-> PeekOrZero(st.stack)]

evaluatePostfix(e) == ReturnedNumber(EvaluatePostfixScan(Tokens(e), 1, ScanStart))

\* reversed = expression.replace(/\s+/g, '').split('').reverse().join('')
evaluatePrefix(e) == ReturnedNumber(EvaluatePrefixScan(Reverse(Tokens(e)), 1, ScanStart))

(***************************************************************************)
(* The inputs the model draws.  Expression trees are <<c>> for the operand *)
(* c and <<op, left, right>> for an operator; an input is one of           *)
(*   - every string of at most MaxLen characters over Alphabet,            *)
(*   - the infix, postfix and prefix forms of every tree of at most MaxOps *)
(*     operators whose operands are the letters A, B, C, ... from left to  *)
(*     right, or digits of DigitPool,                                      *)
(*   - the expressions the documentation quotes, and a few with digits     *)
(*     outside DigitPool (an inexact quotient, a fractional exponent).     *)
(***************************************************************************)
Operators == {"+", "-", "*", "/", "^"}
Alphabet == {"A", "2", "0", "+", "^", "(", ")", " ", "#"}
LetterPool == <<"A", "B", "C", "D", "E", "F", "G", "H">>
DigitPool == {"0", "2"}

RECURSIVE LetterTrees(_, _)
\* The trees of n operators whose operands are LetterPool[k], LetterPool[k+1], ...
LetterTrees(n, k) ==
    IF n = 0 THEN {<<LetterPool[k]>>}
    ELSE UNION { { <<op, l, r>> : op \in Operators,
                                  l \in LetterTrees(i, k),
                                  r \in LetterTrees(n - 1 - i, k + i + 1) } : i \in 0..(n - 1) }

RECURSIVE DigitTrees(_)
DigitTrees(n) ==
    IF n = 0 THEN { <<c>> : c \in DigitPool }
    ELSE UNION { { <<op, l, r>> : op \in Operators,
                                  l \in DigitTrees(i),
                                  r \in DigitTrees(n - 1 - i) } : i \in 0..(n - 1) }

IsLeaf(t) == Len(t) = 1

RECURSIVE PostfixOf(_)
\* The post-order traversal of a tree.
PostfixOf(t) == IF IsLeaf(t) THEN t ELSE PostfixOf(t[2]) \o PostfixOf(t[3]) \o <<t[1]>>

RECURSIVE PrefixOf(_)
\* The pre-order traversal of a tree.
PrefixOf(t) == IF IsLeaf(t) THEN t ELSE <<t[1]>> \o PrefixOf(t[2]) \o PrefixOf(t[3])

RECURSIVE FullInfixOf(_)
\* The full parenthesization of a tree: every operator node in its own parentheses.
FullInfixOf(t) ==
    IF IsLeaf(t) THEN t
    ELSE <<"(">> \o FullInfixOf(t[2]) \o <<t[1]>> \o FullInfixOf(t[3]) \o <<")">>

RECURSIVE InfixForms(_)
\* The infix strings read off a tree with each operator node in parentheses or not.
InfixForms(t) ==
    IF IsLeaf(t) THEN {t}
    ELSE LET bare == { l \o <<t[1]>> \o r : l \in InfixForms(t[2]), r \in InfixForms(t[3]) }
         IN  bare \cup { <<"(">> \o e \o <<")">> : e \in bare }

RECURSIVE BareInfixOf(_)
\* The in-order traversal of a tree, without parentheses.
BareInfixOf(t) == IF IsLeaf(t) THEN t ELSE BareInfixOf(t[2]) \o <<t[1]>> \o BareInfixOf(t[3])

LetterInputs ==
    UNION { InfixForms(t) \cup {PostfixOf(t), PrefixOf(t)} :
                t \in UNION { LetterTrees(n, 1) : n \in 0..MaxOps } }

\* One of the four written forms of a tree.
FormOf(t, form) ==
    CASE form = "infix" -> BareInfixOf(t)
      [] form = "parenthesized" -> FullInfixOf(t)
      [] form = "postfix" -> PostfixOf(t)
      [] form = "prefix" -> PrefixOf(t)

DigitInputs ==
    { FormOf(t, form) : t \in UNION { DigitTrees(n) : n \in 0..MaxOps },
                        form \in {"infix", "parenthesized", "postfix", "prefix"} }

TreeInputs == LetterInputs \cup DigitInputs

AlphabetInputs == UNION { [1..n -> Alphabet] : n \in 0..MaxLen }

Examples == { <<"A", "+", "B", "*", "C">>, <<"A", "*", "B", "+", "C">>,
              <<"A", "^", "B", "^", "C">>, <<"2", "3", "4", "*", "+">>,
              <<"8", "4", "-">>, <<"-", "8", "2">>, <<"8", "-", "4", "-", "2">>,
              <<"2", "3", "/">>, <<"/", "2", "3">>, <<"2", "1", "2", "/", "^">>,
              <<"A", " ", "+", "\t", "B">> }

Inputs == AlphabetInputs \cup TreeInputs \cup Examples

(***************************************************************************)
(* The engine's callers: one call of one operation on one input.           *)
(***************************************************************************)
StackIdle ==
    /\ items = StackNew
    /\ returned = Undefined
    /\ lastCall = "none"
    /\ pushed = <<>>
    /\ popped = <<>>

\* The calls of the stepwise engine: the claim about interleaving speaks of two.
Invocation == {1, 2}

\* No call has been made.
NotCalled ==
    [phase |-> "idle", operation |-> "none", expression |-> <<>>, tokens |-> <<>>,
     next |-> 1, output |-> <<>>, steps |-> <<>>, result |-> <<>>, overlapped |-> FALSE]

RunIdle ==
    /\ invocation = [p \in Invocation |-> NotCalled]
    /\ stackOf = [p \in Invocation |-> StackNew]
    /\ stackAfter = [p \in Invocation |-> <<>>]

\* useState(...) of App, lines 34-44 (the fields the step index depends on).
AppMounted ==
    [operation |-> "infixToPostfix",
     inputExpr |-> <<"A", "+", "B", "*", "C">>,
     results |-> <<>>,            \* null: <<>>, an AlgorithmResult r: <<r>>
     isAnalyzing |-> FALSE,
     history |-> <<>>,
     currentStepIdx |-> 0,
     isPlaying |-> FALSE,
     activeTab |-> "visualizer",
     pending |-> <<>>,            \* the record of a handleProcess awaiting analyzeWithAI
     processed |-> 0]             \* presses of the process button so far

Init ==
    /\ expression \in Inputs
    /\ operation = "none"
    /\ steps = <<>>
    /\ result = <<>>
    /\ StackIdle
    /\ app = AppMounted
    /\ RunIdle

CallInfixToPostfix ==
    /\ operation = "none"
    /\ operation' = "infixToPostfix"
    /\ steps' = infixToPostfix(expression).steps
    /\ result' = infixToPostfix(expression).result
    /\ UNCHANGED <<expression, stackVars, app, runVars>>

CallInfixToPrefix ==
    /\ operation = "none"
    /\ operation' = "infixToPrefix"
    /\ steps' = infixToPrefix(expression).steps
    /\ result' = infixToPrefix(expression).result
    /\ UNCHANGED <<expression, stackVars, app, runVars>>

CallPostfixToInfix ==
    /\ operation = "none"
    /\ operation' = "postfixToInfix"
    /\ steps' = postfixToInfix(expression).steps
    /\ result' = postfixToInfix(expression).result
    /\ UNCHANGED <<expression, stackVars, app, runVars>>

CallPrefixToInfix ==
    /\ operation = "none"
    /\ operation' = "prefixToInfix"
    /\ steps' = prefixToInfix(expression).steps
    /\ result' = prefixToInfix(expression).result
    /\ UNCHANGED <<expression, stackVars, app, runVars>>

CallPostfixToPrefix ==
    /\ operation = "none"
    /\ operation' = "postfixToPrefix"
    /\ steps' = postfixToPrefix(expression).steps
    /\ result' = postfixToPrefix(expression).result
    /\ UNCHANGED <<expression, stackVars, app, runVars>>

CallPrefixToPostfix ==
    /\ operation = "none"
    /\ operation' = "prefixToPostfix"
    /\ steps' = prefixToPostfix(expression).steps
    /\ result' = prefixToPostfix(expression).result
    /\ UNCHANGED <<expression, stackVars, app, runVars>>

CallEvaluatePostfix ==
    /\ operation = "none"
    /\ operation' = "evaluatePostfix"
    /\ steps' = evaluatePostfix(expression).steps
    /\ result' = evaluatePostfix(expression).result
    /\ UNCHANGED <<expression, stackVars, app, runVars>>

CallEvaluatePrefix ==
    /\ operation = "none"
    /\ operation' = "evaluatePrefix"
    /\ steps' = evaluatePrefix(expression).steps
    /\ result' = evaluatePrefix(expression).result
    /\ UNCHANGED <<expression, stackVars, app, runVars>>

Next ==
    \/ CallInfixToPostfix
    \/ CallInfixToPrefix
    \/ CallPostfixToInfix
    \/ CallPrefixToInfix
    \/ CallPostfixToPrefix
    \/ CallPrefixToPostfix
    \/ CallEvaluatePostfix
    \/ CallEvaluatePrefix

Spec == Init /\ [][Next]_vars

(***************************************************************************)
(* A caller of one Stack object: the k-th push pushes the k-th letter, so  *)
(* every element is pushed once and the history tells which are held.      *)
(***************************************************************************)
StackInit ==
    /\ expression = <<>>
    /\ operation = "none"
    /\ steps = <<>>
    /\ result = <<>>
    /\ StackIdle
    /\ app = AppMounted
    /\ RunIdle

StackPushCall ==
    /\ Len(pushed) < MaxPushes
    /\ LET element == <<LetterPool[Len(pushed) + 1]>>
       IN  /\ items' = StackPush(items, element)
           /\ pushed' = Append(pushed, element)
    /\ returned' = Undefined
    /\ lastCall' = "push"
    /\ UNCHANGED <<popped, engineVars, app, runVars>>

StackPopCall ==
    /\ items' = StackPopRest(items)
    /\ returned' = StackPopValue(items)
    /\ popped' = IF StackPopValue(items) = Undefined THEN popped
                 ELSE Append(popped, StackPopValue(items))
    /\ lastCall' = "pop"
    /\ UNCHANGED <<pushed, engineVars, app, runVars>>

StackPeekCall ==
    /\ returned' = StackPeek(items)
    /\ lastCall' = "peek"
    /\ UNCHANGED <<items, pushed, popped, engineVars, app, runVars>>

StackIsEmptyCall ==
    /\ returned' = StackIsEmpty(items)
    /\ lastCall' = "isEmpty"
    /\ UNCHANGED <<items, pushed, popped, engineVars, app, runVars>>

StackSizeCall ==
    /\ returned' = StackSize(items)
    /\ lastCall' = "size"
    /\ UNCHANGED <<items, pushed, popped, engineVars, app, runVars>>

StackNext ==
    \/ StackPushCall
    \/ StackPopCall
    \/ StackPeekCall
    \/ StackIsEmptyCall
    \/ StackSizeCall

StackSpec == StackInit /\ [][StackNext]_vars

(***************************************************************************)
(* App.tsx: the state of the presentation layer that the step index        *)
(* depends on, and the handlers that change it.  React applies the state   *)
(* updates of one handler together and then renders.                       *)
(***************************************************************************)
HistoryLimit == 20

OperationTypes == {"infixToPostfix", "infixToPrefix", "postfixToInfix", "postfixToPrefix",
                   "prefixToInfix", "prefixToPostfix", "evaluatePostfix", "evaluatePrefix"}
Tabs == {"visualizer", "table", "code"}

\* What the text field is set to: the empty string, or the initial text again.
TypedInputs == { <<>>, <<"A", "+", "B", "*", "C">> }

\* switch (operation) { case 'infixToPostfix': data = infixToPostfix(inputExpr); ... }
Dispatch(op, e) ==
    CASE op = "infixToPostfix" -> infixToPostfix(e)
      [] op = "infixToPrefix" -> infixToPrefix(e)
      [] op = "postfixToInfix" -> postfixToInfix(e)
      [] op = "postfixToPrefix" -> postfixToPrefix(e)
      [] op = "prefixToInfix" -> prefixToInfix(e)
      [] op = "prefixToPostfix" -> prefixToPostfix(e)
      [] op = "evaluatePostfix" -> evaluatePostfix(e)
      [] op = "evaluatePrefix" -> evaluatePrefix(e)

\* results.steps.length
StepCount == Len(app.results[1].steps)

\* const currentStep = results?.steps[currentStepIdx] is not undefined
HasCurrentStep ==
    app.results # <<>> /\ app.currentStepIdx >= 0 /\ app.currentStepIdx < StepCount

\* The visualizer tab reads (currentStep as any).stack or .output without a
\* test: rendering it throws when currentStep is undefined, and React then
\* unmounts the component tree, after which no handler or timer is left.
RenderThrows == app.results # <<>> /\ app.activeTab = "visualizer" /\ ~HasCurrentStep

AppInit ==
    /\ expression = <<>>
    /\ operation = "none"
    /\ steps = <<>>
    /\ result = <<>>
    /\ StackIdle
    /\ app = AppMounted
    /\ RunIdle

SetOperation ==
    /\ ~RenderThrows
    /\ \E op \in OperationTypes : app' = [app EXCEPT !.operation = op]
    /\ UNCHANGED <<engineVars, stackVars, runVars>>

SetInputExpr ==
    /\ ~RenderThrows
    /\ \E e \in TypedInputs : app' = [app EXCEPT !.inputExpr = e]
    /\ UNCHANGED <<engineVars, stackVars, runVars>>

SetActiveTab ==
    /\ ~RenderThrows
    /\ \E tab \in Tabs : app' = [app EXCEPT !.activeTab = tab]
    /\ UNCHANGED <<engineVars, stackVars, runVars>>

\* handleProcess up to its await; the button is disabled while isAnalyzing.
HandleProcess ==
    /\ ~RenderThrows
    /\ ~app.isAnalyzing
    /\ app.processed < MaxProcess
    /\ LET data == Dispatch(app.operation, app.inputExpr)
           newRecord == [operation |-> app.operation, input |-> app.inputExpr, data |-> data]
       IN  app' = [app EXCEPT !.results = <<data>>,
                              !.currentStepIdx = 0,
                              !.isPlaying = TRUE,
                              !.isAnalyzing = TRUE,
                              !.pending = <<newRecord>>,
                              !.processed = @ + 1]
    /\ UNCHANGED <<engineVars, stackVars, runVars>>

\* analyzeWithAI settles and handleProcess resumes:
\* setHistory(prev => [newRecord, ...prev].slice(0, 20))
AnalysisDone ==
    /\ ~RenderThrows
    /\ app.pending # <<>>
    /\ LET all == app.pending \o app.history
       IN  app' = [app EXCEPT !.isAnalyzing = FALSE,
                              !.pending = <<>>,
                              !.history = SubSeq(all, 1, IF Len(all) < HistoryLimit
                                                         THEN Len(all) ELSE HistoryLimit)]
    /\ UNCHANGED <<engineVars, stackVars, runVars>>

\* One firing of the interval the autoplay effect sets while isPlaying && results.
AutoplayTick ==
    /\ ~RenderThrows
    /\ app.isPlaying /\ app.results # <<>>
    /\ app' = IF app.currentStepIdx >= StepCount - 1
              THEN [app EXCEPT !.isPlaying = FALSE]
              ELSE [app EXCEPT !.currentStepIdx = @ + 1]
    /\ UNCHANGED <<engineVars, stackVars, runVars>>

\* <input type="range" min="0" max={results.steps.length - 1} onChange=...>
SliderChange ==
    /\ ~RenderThrows
    /\ app.results # <<>> /\ app.activeTab = "visualizer"
    /\ \E v \in 0..(StepCount - 1) : app' = [app EXCEPT !.currentStepIdx = v]
    /\ UNCHANGED <<engineVars, stackVars, runVars>>

\* onClick={() => setIsPlaying(!isPlaying)}
TogglePlay ==
    /\ ~RenderThrows
    /\ app.results # <<>> /\ app.activeTab = "visualizer"
    /\ app' = [app EXCEPT !.isPlaying = ~@]
    /\ UNCHANGED <<engineVars, stackVars, runVars>>

RestoreSession ==
    /\ ~RenderThrows
    /\ \E k \in 1..Len(app.history) :
          LET record == app.history[k]
          IN  app' = [app EXCEPT !.operation = record.operation,
                                 !.inputExpr = record.input,
                                 !.results = <<record.data>>,
                                 !.currentStepIdx = Len(record.data.steps) - 1]
    /\ UNCHANGED <<engineVars, stackVars, runVars>>

AppNext ==
    \/ SetOperation
    \/ SetInputExpr
    \/ SetActiveTab
    \/ HandleProcess
    \/ AnalysisDone
    \/ AutoplayTick
    \/ SliderChange
    \/ TogglePlay
    \/ RestoreSession

AppSpec == AppInit /\ [][AppNext]_vars

(***************************************************************************)
(* The engine token by token.  Each call of an operation has its own       *)
(* locals (tokens, output, steps) and constructs its own Stack; a step is  *)
(* one turn of forEach or of the closing loop.  Two calls are in progress  *)
(* at most, and their steps are taken in any order.                        *)
(* invocation[p].overlapped records whether a step of call p was taken     *)
(* while the other call was under way.                                     *)
(***************************************************************************)
\* The arguments the calls are made with.
RunInputs == { <<"A", "-", "B">>, <<"(", "A", "+", "B", ")">>,
               <<"2", "3", "-">>, <<"-", "2", "3">> }

\* One Stack per operation, constructed outside the function: two calls of
\* the same operation use the same Stack.
StackPerOperation(p) ==
    IF invocation[1].operation = invocation[2].operation THEN 1 ELSE p

\* const stack = new Stack<...>() inside the function: the Stack of call p.
StackFor(p) == p

\* toArray handing out this.items itself: the holder reads the live array.
SharedWithItems(held, live) == live

\* toArray returns [...this.items], a new array: what the holder of the
\* returned array reads once items has become `live`.
Retained(held, live) == held

\* The earlier entries of a trace after a step has left the stack as `live`.
Aliased(trace, live) ==
    [i \in 1..Len(trace) |-> [trace[i] EXCEPT !.stack = Retained(@, live)]]

InfixOps == {"infixToPostfix", "infixToPrefix"}

\* The tokens a call scans, in scanning order.
ScanTokens(op, e) ==
    CASE op = "infixToPrefix" -> Tokens(Mirror(e))
      [] op \in {"prefixToInfix", "prefixToPostfix", "evaluatePrefix"} -> Reverse(Tokens(e))
      [] OTHER -> Tokens(e)

\* One turn of tokens.forEach of operation op.
TokenStep(op, st, token) ==
    IF op \in InfixOps THEN InfixToken(st, token)
    ELSE LET r == CASE op = "postfixToInfix" -> PostfixToInfixToken(st, token)
                    [] op = "prefixToInfix" -> PrefixToInfixToken(st, token)
                    [] op = "postfixToPrefix" -> PostfixToPrefixToken(st, token)
                    [] op = "prefixToPostfix" -> PrefixToPostfixToken(st, token)
                    [] op = "evaluatePostfix" -> EvaluatePostfixToken(st, token)
                    [] op = "evaluatePrefix" -> EvaluatePrefixToken(st, token)
         IN  [stack |-> r.stack, output |-> st.output, steps |-> r.steps]

\* What operation op returns once its loops are over.
ReturnOf(op, e, st) ==
    CASE op = "infixToPostfix" -> [steps |-> st.steps, result |-> st.output]
      [] op = "infixToPrefix" ->
            LET reversed == Mirror(e)
                finalResult == Reverse(st.output)
            IN  [steps |-> <<Step("REVERSE", <<>>, reversed,
                                  "Step 1: Reverse input and swap brackets")>>
                           \o st.steps
                           \o <<Step("FINAL", <<>>, finalResult,
                                     "Step 2: Reverse postfix result to get Prefix")>>,
                 result |-> finalResult]
      [] op \in {"evaluatePostfix", "evaluatePrefix"} -> ReturnedNumber(st)
      [] OTHER -> Returned(st)

\* The locals of call p, with the items of its Stack.
Locals(p) ==
    [stack |-> stackOf[StackFor(p)], output |-> invocation[p].output,
     steps |-> invocation[p].steps]

\* Another call has taken a step and has not returned.
OtherUnderWay(p) ==
    \E q \in Invocation \ {p} : invocation[q].phase = "scan" /\ invocation[q].steps # <<>>

\* The state after a step of call p that leaves its locals as st.
AfterStep(p, st, consumed) ==
    /\ stackOf' = [stackOf EXCEPT ![StackFor(p)] = st.stack]
    /\ invocation' = [invocation EXCEPT ![p] =
            [@ EXCEPT !.next = @ + consumed,
                      !.output = st.output,
                      !.steps = Aliased(st.steps, st.stack),
                      !.overlapped = @ \/ OtherUnderWay(p)]]
    /\ stackAfter' = [stackAfter EXCEPT ![p] = Append(@, st.stack)]

RunInit ==
    /\ expression = <<>>
    /\ operation = "none"
    /\ steps = <<>>
    /\ result = <<>>
    /\ StackIdle
    /\ app = AppMounted
    /\ RunIdle

\* The entry of a call: its locals are created.
Invoke ==
    /\ \E p \in Invocation, op \in OperationTypes, e \in RunInputs :
          /\ invocation[p].phase = "idle"
          /\ invocation' = [invocation EXCEPT ![p] =
                  [NotCalled EXCEPT !.phase = "scan", !.operation = op, !.expression = e,
                                    !.tokens = ScanTokens(op, e)]]
          /\ stackOf' = [stackOf EXCEPT ![StackFor(p)] = StackNew]
    /\ UNCHANGED <<engineVars, stackVars, app, stackAfter>>

\* One turn of tokens.forEach.
ScanToken ==
    /\ \E p \in Invocation :
          LET c == invocation[p]
          IN  /\ c.phase = "scan"
              /\ c.next <= Len(c.tokens)
              /\ AfterStep(p, TokenStep(c.operation, Locals(p), c.tokens[c.next]), 1)
    /\ UNCHANGED <<engineVars, stackVars, app>>

\* One turn of the closing loop of infixToPostfix.
Flush ==
    /\ \E p \in Invocation :
          LET c == invocation[p]
          IN  /\ c.phase = "scan"
              /\ c.operation \in InfixOps
              /\ c.next > Len(c.tokens)
              /\ ~StackIsEmpty(stackOf[StackFor(p)])
              /\ AfterStep(p, InfixFlush(Locals(p)), 0)
    /\ UNCHANGED <<engineVars, stackVars, app>>

\* The return statement.
Return ==
    /\ \E p \in Invocation :
          LET c == invocation[p]
              r == ReturnOf(c.operation, c.expression, Locals(p))
          IN  /\ c.phase = "scan"
              /\ c.next > Len(c.tokens)
              /\ c.operation \in InfixOps => StackIsEmpty(stackOf[StackFor(p)])
              /\ invocation' = [invocation EXCEPT ![p] =
                      [@ EXCEPT !.phase = "done", !.steps = r.steps, !.result = r.result]]
    /\ UNCHANGED <<engineVars, stackVars, app, stackOf, stackAfter>>

RunNext ==
    \/ Invoke
    \/ ScanToken
    \/ Flush
    \/ Return

RunSpec == RunInit /\ [][RunNext]_vars

(***************************************************************************)
(* The grammar the claims refer to: the parse tree of an infix expression  *)
(* under the ranks + - < * / < ^, with ^ grouping to the right and the     *)
(* others to the left.  A parse result is [ok, tree, next].                *)
(***************************************************************************)
Rank(c) == IF c \in {"+", "-"} THEN 1 ELSE IF c \in {"*", "/"} THEN 2 ELSE 3
GroupsRight(c) == c = "^"
NoParse == [ok |-> FALSE, tree |-> <<>>, next |-> 0]

RECURSIVE ParsePrimary(_, _)
RECURSIVE ParseExpression(_, _, _)
RECURSIVE ParseRest(_, _, _, _)

\* An operand, or an expression in parentheses, at position i.
ParsePrimary(s, i) ==
    IF i > Len(s) THEN NoParse
    ELSE IF s[i] \in Letter \cup Digit THEN [ok |-> TRUE, tree |-> <<s[i]>>, next |-> i + 1]
    ELSE IF s[i] = "("
    THEN LET r == ParseExpression(s, i + 1, 1)
         IN  IF r.ok /\ r.next <= Len(s) /\ s[r.next] = ")"
             THEN [ok |-> TRUE, tree |-> r.tree, next |-> r.next + 1]
             ELSE NoParse
    ELSE NoParse

\* The longest expression at position i all of whose top-level operators have rank >= min.
ParseExpression(s, i, min) ==
    LET p == ParsePrimary(s, i)
    IN  IF p.ok THEN ParseRest(s, p.tree, p.next, min) ELSE NoParse

ParseRest(s, left, i, min) ==
    IF i <= Len(s) /\ s[i] \in Operators /\ Rank(s[i]) >= min
    THEN LET r == ParseExpression(s, i + 1, IF GroupsRight(s[i]) THEN Rank(s[i]) ELSE Rank(s[i]) + 1)
         IN  IF r.ok THEN ParseRest(s, <<s[i], left, r.tree>>, r.next, min) ELSE NoParse
    ELSE [ok |-> TRUE, tree |-> left, next |-> i]

Parse(s) ==
    LET r == ParseExpression(s, 1, 1)
    IN  IF r.ok /\ r.next = Len(s) + 1 THEN r ELSE NoParse

\* A well-formed infix expression: operands, operators and parentheses that parse.
WellFormedInfix(e) == Parse(e).ok

TreeOf(e) == Parse(e).tree

RECURSIVE DepthAfter(_, _, _)
\* The number of operands a postfix scan holds after s[i..], or -1 once an
\* operator finds fewer than two or a character is neither operand nor operator.
DepthAfter(s, i, depth) ==
    IF i > Len(s) THEN depth
    ELSE IF s[i] \in Letter \cup Digit THEN DepthAfter(s, i + 1, depth + 1)
    ELSE IF s[i] \in Operators /\ depth >= 2 THEN DepthAfter(s, i + 1, depth - 1)
    ELSE -1

\* A valid postfix expression: every operator finds two operands and one value is left.
ValidPostfix(e) == DepthAfter(e, 1, 0) = 1

OnlyDigitOperands(e) == \A i \in 1..Len(e) : e[i] \notin Letter

NonWhitespace(e) == Cardinality({ i \in 1..Len(e) : e[i] \notin Whitespace })

\* Strict equality of two numbers, but with NaN equal to itself: -0 equals +0.
SameNumber(a, b) == a = b \/ (IsZero(a) /\ IsZero(b))

Conversions == {"infixToPostfix", "infixToPrefix", "postfixToInfix", "postfixToPrefix",
                "prefixToInfix", "prefixToPostfix"}
Evaluations == {"evaluatePostfix", "evaluatePrefix"}

ExprABC(op1, op2) == <<"A", op1, "B", op2, "C">>
Expr234 == <<"2", "3", "4", "*", "+">>

(***************************************************************************)
(* C1.  infixToPostfix of a well-formed infix expression is the post-order *)
(* traversal of its parse tree; A+B*C gives ABC*+, A*B+C gives AB*C+ and   *)
(* A^B^C gives ABC^^.                                                      *)
(***************************************************************************)
C1_PostfixIsPostOrder ==
    operation = "infixToPostfix" =>
        /\ WellFormedInfix(expression) => result = PostfixOf(TreeOf(expression))
        /\ expression = ExprABC("+", "*") => result = <<"A", "B", "C", "*", "+">>
        /\ expression = ExprABC("*", "+") => result = <<"A", "B", "*", "C", "+">>
        /\ expression = ExprABC("^", "^") => result = <<"A", "B", "C", "^", "^">>

C1_Witness ==
    /\ operation = "infixToPostfix"
    /\ expression = ExprABC("^", "^")
    /\ WellFormedInfix(expression)
    /\ result = <<"A", "B", "C", "^", "^">>

(***************************************************************************)
(* C2.  For a well-formed infix expression E over digits, evaluating       *)
(* infixToPostfix(E) as postfix equals evaluating infixToPrefix(E) as      *)
(* prefix.                                                                 *)
(***************************************************************************)
C2_EvaluationAgreement ==
    (operation = "infixToPostfix" /\ WellFormedInfix(expression) /\ OnlyDigitOperands(expression))
        => SameNumber(evaluatePostfix(result).result,
                      evaluatePrefix(infixToPrefix(expression).result).result)

(***************************************************************************)
(* C3.  For a valid postfix expression P, prefixToPostfix applied to       *)
(* postfixToPrefix(P) gives P back.                                        *)
(***************************************************************************)
C3_PostfixRoundTrip ==
    (operation = "postfixToPrefix" /\ ValidPostfix(expression))
        => prefixToPostfix(result).result = expression

C3_Witness ==
    /\ operation = "postfixToPrefix"
    /\ expression = <<"A", "B", "+", "C", "*">>
    /\ ValidPostfix(expression)
    /\ result = <<"*", "+", "A", "B", "C">>

(***************************************************************************)
(* C4.  For a well-formed infix expression E, postfixToInfix applied to    *)
(* infixToPostfix(E) is the full parenthesization of E's parse tree.       *)
(***************************************************************************)
C4_InfixRoundTrip ==
    (operation = "infixToPostfix" /\ WellFormedInfix(expression))
        => postfixToInfix(result).result = FullInfixOf(TreeOf(expression))

C4_Witness ==
    /\ operation = "infixToPostfix"
    /\ expression = <<"(", "A", "-", "B", ")", "^", "C">>
    /\ postfixToInfix(result).result = <<"(", "(", "A", "-", "B", ")", "^", "C", ")">>

(***************************************************************************)
(* C5.  As claimed: on the empty string each of the eight operations       *)
(* returns no steps and the result "" (a conversion) or 0 (an evaluation). *)
(***************************************************************************)
EmptyResult ==
    IF operation \in Evaluations THEN result = Zero ELSE result = <<>>

C5_EmptyInputNoSteps ==
    (expression = <<>> /\ operation # "none") => (steps = <<>> /\ EmptyResult)

(***************************************************************************)
(* C5, amended.  On the empty string every operation returns the result "" *)
(* (a conversion) or 0 (an evaluation); the trace is empty for every       *)
(* operation but infixToPrefix, whose trace is its two synthetic entries,  *)
(* REVERSE and FINAL, each with an empty stack and the output "".          *)
(***************************************************************************)
C5_EmptyInput ==
    (expression = <<>> /\ operation # "none") =>
        /\ EmptyResult
        /\ operation # "infixToPrefix" => steps = <<>>
        /\ operation = "infixToPrefix" =>
              /\ Len(steps) = 2
              /\ steps[1].token = "REVERSE" /\ steps[2].token = "FINAL"
              /\ \A i \in 1..2 : steps[i].stack = <<>> /\ steps[i].output = <<>>

C5_Witness ==
    /\ expression = <<>>
    /\ operation = "infixToPrefix"
    /\ Len(steps) = 2
    /\ result = <<>>

(***************************************************************************)
(* C6.  The trace of evaluatePostfix, evaluatePrefix, postfixToInfix,      *)
(* prefixToInfix, postfixToPrefix and prefixToPostfix has one entry per    *)
(* non-whitespace character of the input; the trace of infixToPostfix has  *)
(* those and one 'EOF' entry per element left on the operator stack after  *)
(* the last token.                                                         *)
(***************************************************************************)
\* The operator stack of infixToPostfix after the last token of e.
StackAfterLastToken(e) ==
    InfixScan(Tokens(e), 1, [stack |-> StackNew, output |-> <<>>, steps |-> <<>>]).stack

C6_TraceLength ==
    /\ operation \in (Conversions \cup Evaluations) \ {"infixToPostfix", "infixToPrefix"}
          => Len(steps) = NonWhitespace(expression)
    /\ operation = "infixToPostfix" =>
          /\ Len(steps) = NonWhitespace(expression) + Len(StackAfterLastToken(expression))
          /\ \A i \in 1..Len(steps) :
                 (steps[i].token = "EOF") <=> (i > NonWhitespace(expression))

C6_Witness ==
    /\ operation = "infixToPostfix"
    /\ expression = <<"A", " ", "+", "\t", "B">>
    /\ Len(steps) = 4
    /\ steps[4].token = "EOF"

(***************************************************************************)
(* C7.  As claimed: evaluatePostfix("234*+") returns 8.                    *)
(***************************************************************************)
C7_Returns8 ==
    (operation = "evaluatePostfix" /\ expression = Expr234) => result = <<8, 1>>

(***************************************************************************)
(* C7, amended.  evaluatePostfix("234*+") returns 14: * pops 4 and 3 and   *)
(* pushes 12, + pops 12 and 2 and pushes 14.                               *)
(***************************************************************************)
C7_Returns14 ==
    (operation = "evaluatePostfix" /\ expression = Expr234) =>
        /\ result = <<14, 1>>
        /\ steps[4].stack = << <<2, 1>>, <<12, 1>> >>
        /\ steps[5].stack = << <<14, 1>> >>

C7_Witness ==
    /\ operation = "evaluatePostfix"
    /\ expression = Expr234
    /\ Len(steps) = 5

(***************************************************************************)
(* C8.  After evaluatePostfix has processed a well-formed postfix          *)
(* expression over digits, the stack holds exactly one element and that    *)
(* element is the returned result.                                         *)
(***************************************************************************)
C8_OneElementIsResult ==
    (operation = "evaluatePostfix" /\ ValidPostfix(expression) /\ OnlyDigitOperands(expression))
        => /\ Len(steps[Len(steps)].stack) = 1
           /\ SameNumber(steps[Len(steps)].stack[1], result)

(***************************************************************************)
(* C9.  On a Stack, peek and pop return the most recently pushed element   *)
(* not yet popped, peek leaves the contents unchanged, size() is the       *)
(* number of pushes minus the number of pops that returned an element, and *)
(* isEmpty() holds iff size() is 0.                                        *)
(***************************************************************************)
\* The elements pushed and not yet returned by a pop, oldest first.
Held == SelectSeq(pushed, LAMBDA e : \A i \in 1..Len(popped) : popped[i] # e)

C9_StackLifo ==
    /\ [](Len(items) = Len(pushed) - Len(popped))
    /\ [][ /\ lastCall' \in {"pop", "peek"} /\ Held # <<>> => returned' = Held[Len(Held)]
           /\ lastCall' = "peek" => items' = items
           /\ lastCall' = "size" => returned' = Len(pushed) - Len(popped)
           /\ lastCall' = "isEmpty" => returned' = (StackSize(items) = 0)
         ]_vars

C9_Witness ==
    /\ lastCall = "pop"
    /\ returned = <<"C">>
    /\ popped = << <<"B">>, <<"C">> >>
    /\ Len(pushed) = 3
    /\ items = << <<"A">> >>

(***************************************************************************)
(* C10.  pop() and peek() on an empty Stack return undefined and leave the *)
(* stack empty, in the state of a fresh stack.                             *)
(***************************************************************************)
C10_EmptyPopPeek ==
    [][ (StackIsEmpty(items) /\ lastCall' \in {"pop", "peek"})
            => (returned' = Undefined /\ items' = StackNew /\ StackSize(items') = 0)
      ]_vars

C10_Witness ==
    /\ lastCall = "pop"
    /\ returned = Undefined
    /\ items = <<>>
    /\ pushed # <<>>
    /\ Len(popped) = Len(pushed)

(***************************************************************************)
(* C11.  For every input (unmatched parentheses, operators with too few    *)
(* operands, unrecognized characters and the empty string included) each   *)
(* of the eight operations returns a list of steps and a result that is a  *)
(* string for the six conversions and a number for the two evaluations.    *)
(* The code has no throw and no unbounded loop; what can go wrong is an    *)
(* absent value reaching the result or a stack snapshot.                   *)
(***************************************************************************)
\* The characters a string of the model is made of.
Characters == Letter \cup Digit \cup Operators \cup Whitespace \cup {"(", ")", "#"}

IsString(v) == v # Undefined /\ \A i \in 1..Len(v) : v[i] \in Characters

RECURSIVE IsNumber(_)
\* A number of the model: a pair of integers, or the term of a rounded operation.
IsNumber(v) ==
    /\ v # Undefined
    /\ \/ Len(v) = 2 /\ v[1] \in Int /\ v[2] \in Int
       \/ Len(v) = 3 /\ v[1] \in Operators /\ IsNumber(v[2]) /\ IsNumber(v[3])

C11_Totality ==
    /\ operation \in Conversions =>
          /\ IsString(result)
          /\ \A i \in 1..Len(steps) :
                /\ IsString(steps[i].output)
                /\ \A j \in 1..Len(steps[i].stack) :
                      IF operation \in {"infixToPostfix", "infixToPrefix"}
                      THEN steps[i].stack[j] \in Characters
                      ELSE IsString(steps[i].stack[j])
    /\ operation \in Evaluations =>
          /\ IsNumber(result)
          /\ \A i \in 1..Len(steps) :
                \A j \in 1..Len(steps[i].stack) : IsNumber(steps[i].stack[j])

C11_Witness ==
    /\ operation = "evaluatePostfix"
    /\ expression = <<")", "+", "#">>
    /\ result = Zero
    /\ steps[3].stack = <<NaN>>

(***************************************************************************)
(* C12.  With M the input reversed character by character and '(' and ')'  *)
(* exchanged, infixToPrefix returns the reversal of infixToPostfix(M)'s    *)
(* result, and its trace is one 'REVERSE' entry (empty stack, output M),   *)
(* then the whole trace of infixToPostfix(M), then one 'FINAL' entry       *)
(* (empty stack, output the result).                                       *)
(***************************************************************************)
\* s read backwards.
Backwards(s) == [i \in 1..Len(s) |-> s[Len(s) + 1 - i]]

\* s read backwards with each bracket replaced by the other one.
Mirrored(s) ==
    [i \in 1..Len(s) |->
        LET c == s[Len(s) + 1 - i]
        IN  CASE c = "(" -> ")" [] c = ")" -> "(" [] OTHER -> c]

C12_PrefixByComposition ==
    operation = "infixToPrefix" =>
        LET M == Mirrored(expression)
            inner == infixToPostfix(M)
            n == Len(steps)
        IN  /\ result = Backwards(inner.result)
            /\ n = Len(inner.steps) + 2
            /\ steps[1].token = "REVERSE" /\ steps[1].stack = <<>> /\ steps[1].output = M
            /\ SubSeq(steps, 2, n - 1) = inner.steps
            /\ steps[n].token = "FINAL" /\ steps[n].stack = <<>> /\ steps[n].output = result

C12_Witness ==
    /\ operation = "infixToPrefix"
    /\ expression = <<"(", "A", "-", "B", ")", "^", "C">>
    /\ steps[1].output = <<"C", "^", "(", "B", "-", "A", ")">>
    /\ result = <<"^", "-", "A", "B", "C">>
    /\ Len(steps) > 2

(***************************************************************************)
(* Reference reading of postfix and prefix expressions as trees, and the   *)
(* integer value of a tree where the claims define one: + - * always,      *)
(* / when the divisor is not zero and divides exactly, ^ for an exponent   *)
(* that is not negative, all within ExactLimit.                            *)
(***************************************************************************)
RECURSIVE PostfixTreeAt(_, _)
\* The tree of the postfix expression ending at s[i], and the index before it.
PostfixTreeAt(s, i) ==
    IF s[i] \in Operators
    THEN LET right == PostfixTreeAt(s, i - 1)
             left == PostfixTreeAt(s, right.next)
         IN  [tree |-> <<s[i], left.tree, right.tree>>, next |-> left.next]
    ELSE [tree |-> <<s[i]>>, next |-> i - 1]

PostfixTree(s) == PostfixTreeAt(s, Len(s)).tree

RECURSIVE PrefixTreeAt(_, _)
\* The tree of the prefix expression starting at s[i], and the index after it.
PrefixTreeAt(s, i) ==
    IF s[i] \in Operators
    THEN LET left == PrefixTreeAt(s, i + 1)
             right == PrefixTreeAt(s, left.next)
         IN  [tree |-> <<s[i], left.tree, right.tree>>, next |-> right.next]
    ELSE [tree |-> <<s[i]>>, next |-> i + 1]

PrefixTree(s) == PrefixTreeAt(s, 1).tree

ValidPrefix(e) == ValidPostfix(Backwards(e))

DigitsInOrder == <<"0", "1", "2", "3", "4", "5", "6", "7", "8", "9">>
DigitValue(c) == (CHOOSE i \in 1..10 : DigitsInOrder[i] = c) - 1

\* No integer value: the claim says nothing about the expression.
NoValue == <<>>

Magnitude(n) == IF n < 0 THEN -n ELSE n
Within(n) == IF Magnitude(n) <= ExactLimit THEN <<n>> ELSE NoValue

RECURSIVE IntPow(_, _)
IntPow(a, n) ==
    IF n = 0 THEN <<1>>
    ELSE LET p == IntPow(a, n - 1)
         IN  IF p = NoValue THEN NoValue ELSE Within(p[1] * a)

IntApply(op, a, b) ==
    CASE op = "+" -> Within(a + b)
      [] op = "-" -> Within(a - b)
      [] op = "*" -> Within(a * b)
      [] op = "/" -> IF b # 0 /\ Magnitude(a) % Magnitude(b) = 0
                     THEN <<(IF (a < 0) = (b < 0) THEN 1 ELSE -1)
                              * (Magnitude(a) \div Magnitude(b))>>
                     ELSE NoValue
      [] op = "^" -> IF b >= 0 THEN IntPow(a, b) ELSE NoValue

RECURSIVE ValueOf(_)
\* The value of a tree of digits, the left subtree being the left operand.
ValueOf(t) ==
    IF Len(t) = 1 THEN <<DigitValue(t[1])>>
    ELSE LET a == ValueOf(t[2])
             b == ValueOf(t[3])
         IN  IF a = NoValue \/ b = NoValue THEN NoValue ELSE IntApply(t[1], a[1], b[1])

(***************************************************************************)
(* C16.  evaluatePostfix takes the first pop as the right operand and the  *)
(* second as the left one: for every well-formed postfix expression over   *)
(* single digits whose tree has an integer value (+ - *, exact /, bounded  *)
(* ^) the result is that value; "84-" gives 4, not -4.                     *)
(***************************************************************************)
C16_PostfixOperandOrder ==
    operation = "evaluatePostfix" =>
        /\ expression = <<"8", "4", "-">> => result = <<4, 1>>
        /\ ValidPostfix(expression) /\ OnlyDigitOperands(expression) =>
              LET v == ValueOf(PostfixTree(expression))
              IN  v # NoValue => result = <<v[1], 1>>

C16_Witness ==
    /\ operation = "evaluatePostfix"
    /\ expression = <<"2", "0", "-">>
    /\ ValueOf(PostfixTree(expression)) = <<2>>
    /\ steps[3].stack = << <<2, 1>> >>

(***************************************************************************)
(* C17.  evaluatePrefix scans right to left and takes the first pop as the *)
(* left operand: for every well-formed prefix expression over single       *)
(* digits the result is the value of its tree, the first operand after the *)
(* operator being the left one ("-82" gives 6), and for every well-formed  *)
(* postfix expression P over digits                                        *)
(* evaluatePrefix(postfixToPrefix(P).result) returns what                  *)
(* evaluatePostfix(P) returns.                                             *)
(***************************************************************************)
RECURSIVE TreeValue(_)
\* The value of a tree of digits in the arithmetic of the evaluators.
TreeValue(t) ==
    IF Len(t) = 1 THEN <<DigitValue(t[1]), 1>>
    ELSE Compute(TreeValue(t[2]), t[1], TreeValue(t[3]))

C17_PrefixTreeValue ==
    /\ operation = "evaluatePrefix" =>
          /\ expression = <<"-", "8", "2">> => result = <<6, 1>>
          /\ ValidPrefix(expression) /\ OnlyDigitOperands(expression) =>
                SameNumber(result, TreeValue(PrefixTree(expression)))
    /\ operation = "postfixToPrefix" =>
          (ValidPostfix(expression) /\ OnlyDigitOperands(expression) =>
              evaluatePrefix(result).result = evaluatePostfix(expression).result)

(***************************************************************************)
(* C18.  prefixToInfix takes the first pop as the left operand and the     *)
(* second as the right one and pushes (left OP right): a valid prefix      *)
(* expression becomes the fully parenthesized infix form of its tree, and  *)
(* for every valid postfix expression P                                    *)
(* prefixToInfix(postfixToPrefix(P).result) returns what postfixToInfix(P) *)
(* returns.                                                                *)
(***************************************************************************)
C18_PrefixToInfixOrder ==
    /\ operation = "prefixToInfix" =>
          (ValidPrefix(expression) => result = FullInfixOf(PrefixTree(expression)))
    /\ operation = "postfixToPrefix" =>
          (ValidPostfix(expression) =>
              prefixToInfix(result).result = postfixToInfix(expression).result)

C18_Witness ==
    /\ operation = "postfixToPrefix"
    /\ expression = <<"A", "B", "-", "C", "^">>
    /\ prefixToInfix(result).result =
          <<"(", "(", "A", "-", "B", ")", "^", "C", ")">>

(***************************************************************************)
(* C19.  In infixToPostfix a ')' pops the stack into the output down to    *)
(* the nearest '(' and removes that '(' without appending it; with no '('  *)
(* on the stack it empties the stack and appends nothing else.  For input  *)
(* whose parentheses are balanced no '(' or ')' is in the output of any    *)
(* step or in the result.                                                  *)
(***************************************************************************)
RECURSIVE Nesting(_, _, _)
\* The number of brackets open after e[i..], or -1 once a ')' closes nothing.
Nesting(e, i, depth) ==
    IF i > Len(e) THEN depth
    ELSE IF e[i] = "(" THEN Nesting(e, i + 1, depth + 1)
    ELSE IF e[i] = ")" THEN (IF depth = 0 THEN -1 ELSE Nesting(e, i + 1, depth - 1))
    ELSE Nesting(e, i + 1, depth)

Balanced(e) == Nesting(e, 1, 0) = 0

\* The index of the topmost '(' of a stack, 0 if it holds none.
TopParen(s) ==
    LET P == { j \in 1..Len(s) : s[j] = "(" }
    IN  IF P = {} THEN 0 ELSE CHOOSE j \in P : \A m \in P : m <= j

NoParen(s) == \A i \in 1..Len(s) : s[i] \notin {"(", ")"}

\* The stack and output an entry of a conversion trace starts from.
Before(i) == IF i = 1 THEN [stack |-> <<>>, output |-> <<>>] ELSE steps[i - 1]

C19_RightParen ==
    operation = "infixToPostfix" =>
        /\ \A i \in 1..Len(steps) :
              steps[i].token = ")" =>
                  LET b == Before(i)
                      k == TopParen(b.stack)
                  IN  /\ steps[i].stack = SubSeq(b.stack, 1, k - 1)
                      /\ steps[i].output =
                            b.output \o Backwards(SubSeq(b.stack, k + 1, Len(b.stack)))
        /\ Balanced(expression) =>
              /\ NoParen(result)
              /\ \A i \in 1..Len(steps) : NoParen(steps[i].output)

C19_Witness ==
    /\ operation = "infixToPostfix"
    /\ expression = <<"(", "A", "-", "B", ")", "^", "C">>
    /\ steps[4].stack = <<"(", "-">>
    /\ steps[5].token = ")" /\ steps[5].stack = <<>> /\ steps[5].output = <<"A", "B", "-">>
    /\ result = <<"A", "B", "-", "C", "^">>

(***************************************************************************)
(* C20.  In every operation a token that is neither operand nor operator   *)
(* nor, for the infix conversions, a parenthesis has exactly one trace     *)
(* entry, whose stack and output are those of the entry before it (empty   *)
(* for the first token), and the result is the one the input without such  *)
(* tokens gives.                                                           *)
(***************************************************************************)
InfixOperations == {"infixToPostfix", "infixToPrefix"}
RightToLeft == {"prefixToInfix", "prefixToPostfix", "evaluatePrefix"}

Unrecognized(op, c) ==
    /\ c \notin Whitespace \cup Letter \cup Digit \cup Operators
    /\ op \in InfixOperations => c \notin {"(", ")"}

\* The tokens of e in the order the operation scans them.
ScanOrder(op, e) ==
    LET t == SelectSeq(e, LAMBDA c : c \notin Whitespace)
    IN  IF op = "infixToPrefix" THEN Mirrored(t)
        ELSE IF op \in RightToLeft THEN Backwards(t)
        ELSE t

Apply(op, e) ==
    CASE op = "infixToPostfix" -> infixToPostfix(e)
      [] op = "infixToPrefix" -> infixToPrefix(e)
      [] op = "postfixToInfix" -> postfixToInfix(e)
      [] op = "prefixToInfix" -> prefixToInfix(e)
      [] op = "postfixToPrefix" -> postfixToPrefix(e)
      [] op = "prefixToPostfix" -> prefixToPostfix(e)
      [] op = "evaluatePostfix" -> evaluatePostfix(e)
      [] op = "evaluatePrefix" -> evaluatePrefix(e)

C20_SilentPassThrough ==
    operation # "none" =>
        LET tokens == ScanOrder(operation, expression)
            base == IF operation = "infixToPrefix" THEN 1 ELSE 0
        IN  /\ \A j \in 1..Len(tokens) :
                  Unrecognized(operation, tokens[j]) =>
                      LET entry == steps[base + j]
                      IN  /\ entry.token = tokens[j]
                          /\ entry.stack = (IF j = 1 THEN <<>> ELSE steps[base + j - 1].stack)
                          /\ operation \in Conversions =>
                                entry.output =
                                    (IF j = 1 THEN <<>> ELSE steps[base + j - 1].output)
                          /\ Cardinality({ i \in 1..Len(steps) : steps[i].token = tokens[j] })
                                = Cardinality({ m \in 1..Len(tokens) : tokens[m] = tokens[j] })
            /\ result =
                  Apply(operation,
                        SelectSeq(expression, LAMBDA c : ~Unrecognized(operation, c))).result

C20_Witness ==
    /\ operation = "infixToPostfix"
    /\ expression = <<"A", "+", "#">>
    /\ steps[3].token = "#" /\ steps[3].stack = <<"+">> /\ steps[3].output = <<"A">>
    /\ result = <<"A", "+">>

(***************************************************************************)
(* C15.  In the presentation layer, after any sequence of actions (process *)
(* an expression, autoplay tick, slider change, play/pause, restore a      *)
(* history record), whenever a result is displayed the current step index  *)
(* lies in [0, results.steps.length).                                      *)
(***************************************************************************)
C15_StepIndexInRange ==
    app.results # <<>> =>
        app.currentStepIdx >= 0 /\ app.currentStepIdx < Len(app.results[1].steps)

(***************************************************************************)
(* C13.  Trace entries are snapshots: the stack stored in the entry for    *)
(* step i is the stack as it was immediately after step i, and no later    *)
(* step of the same call changes the stack, output or token of an entry    *)
(* already appended.                                                       *)
(***************************************************************************)
\* The entries of call p that its own steps appended: all of them, but for
\* a returned infixToPrefix, whose trace begins with the REVERSE entry.
Appended(p) ==
    LET c == invocation[p]
        base == IF c.phase = "done" /\ c.operation = "infixToPrefix" THEN 1 ELSE 0
    IN  [i \in 1..Len(stackAfter[p]) |-> c.steps[base + i]]

C13_SnapshotsAreImmutable ==
    /\ [](\A p \in Invocation :
            /\ invocation[p].phase = "scan" => Len(invocation[p].steps) = Len(stackAfter[p])
            /\ \A i \in 1..Len(stackAfter[p]) : Appended(p)[i].stack = stackAfter[p][i])
    /\ [][\A p \in Invocation :
            invocation[p].phase = "scan" =>
                \A i \in 1..Len(stackAfter[p]) : Appended(p)'[i] = Appended(p)[i]]_vars

C13_Witness ==
    /\ invocation[1].phase = "scan"
    /\ invocation[1].operation = "infixToPostfix"
    /\ invocation[1].expression = <<"A", "-", "B">>
    /\ Len(invocation[1].steps) = 4
    /\ invocation[1].steps[3].stack = <<"-">>
    /\ stackOf[1] = <<>>

(***************************************************************************)
(* C14.  The engine has no shared state: when the steps of two calls       *)
(* (same or different operation, same or different input) are taken in any *)
(* order, each call returns the steps and the result it returns when it    *)
(* runs alone; so does a call repeated on the same input.                  *)
(***************************************************************************)
C14_NoSharedState ==
    \A p \in Invocation :
        invocation[p].phase = "done" =>
            LET alone == Dispatch(invocation[p].operation, invocation[p].expression)
            IN  /\ invocation[p].steps = alone.steps
                /\ invocation[p].result = alone.result

C14_Witness ==
    /\ invocation[1].phase = "done" /\ invocation[1].overlapped
    /\ invocation[2].phase = "done" /\ invocation[2].overlapped
    /\ invocation[1].operation = "infixToPostfix"
    /\ invocation[1].expression = <<"(", "A", "+", "B", ")">>
    /\ invocation[1].result = <<"A", "B", "+">>
    /\ invocation[2].operation = "evaluatePrefix"
    /\ invocation[2].expression = <<"-", "2", "3">>
    /\ invocation[2].result = <<-1, 1>>

(***************************************************************************)
(* C21.  In every operation and for every input the stack depth at every   *)
(* step is at most the number of tokens processed so far, hence at most    *)
(* the number of non-whitespace characters of the input.                   *)
(***************************************************************************)
\* The number of tokens processed when entry i of the trace is appended:
\* entry i belongs to token i, the closing-loop entries come after the last
\* token, and the trace of infixToPrefix begins with its REVERSE entry.
ProcessedAt(i) ==
    LET n == NonWhitespace(expression)
        k == IF operation = "infixToPrefix" THEN i - 1 ELSE i
    IN  IF k > n THEN n ELSE k

C21_DepthBoundedByTokens ==
    operation # "none" =>
        \A i \in 1..Len(steps) :
            /\ Len(steps[i].stack) <= ProcessedAt(i)
            /\ Len(steps[i].stack) <= NonWhitespace(expression)

C21_Witness ==
    /\ operation = "postfixToInfix"
    /\ expression = <<"A", "B", "-", "C", "^">>
    /\ Len(steps[2].stack) = 2 /\ ProcessedAt(2) = 2
    /\ Len(steps[5].stack) = 1

(***************************************************************************)
(* C22.  The two routes to postfix agree: for every well-formed infix      *)
(* expression E, prefixToPostfix(infixToPrefix(E).result).result equals    *)
(* infixToPostfix(E).result, chains of operators of equal precedence such  *)
(* as A-B-C and A^B^C included.                                            *)
(***************************************************************************)
C22_RoutesToPostfixAgree ==
    operation = "infixToPrefix" /\ WellFormedInfix(expression) =>
        prefixToPostfix(result).result = infixToPostfix(expression).result

(***************************************************************************)
(* C23.  In every recorded state of infixToPostfix, two operators adjacent *)
(* on the stack (no '(' between them), x below y, satisfy                  *)
(* precedence(x) < precedence(y), or precedence(x) = precedence(y) and y   *)
(* is the right-associative '^'.                                           *)
(***************************************************************************)
PrecedenceOf(c) == CASE c \in {"+", "-"} -> 1 [] c \in {"*", "/"} -> 2 [] c = "^" -> 3

Ordered(x, y) ==
    \/ PrecedenceOf(x) < PrecedenceOf(y)
    \/ PrecedenceOf(x) = PrecedenceOf(y) /\ y = "^"

C23_OperatorStackOrdered ==
    operation = "infixToPostfix" =>
        \A i \in 1..Len(steps) :
            LET s == steps[i].stack
            IN  \A j \in 1..(Len(s) - 1) :
                    s[j] \in Operators /\ s[j + 1] \in Operators => Ordered(s[j], s[j + 1])

C23_Witness ==
    /\ operation = "infixToPostfix"
    /\ expression = <<"A", "^", "B", "^", "C">>
    /\ steps[4].stack = <<"^", "^">>
    /\ result = <<"A", "B", "C", "^", "^">>

(***************************************************************************)
(* C24.  Conservation in infixToPostfix: at every step the operands of the *)
(* output are, in order, the operands processed so far, and the operators  *)
(* of the output together with those on the stack are, counted with        *)
(* multiplicity, the operators processed so far; for balanced input the    *)
(* result is a permutation of the input's operands and operators.          *)
(***************************************************************************)
Occurrences(c, s) == Cardinality({ i \in 1..Len(s) : s[i] = c })

OperandsOf(s) == SelectSeq(s, LAMBDA c : c \in Letter \cup Digit)

OperatorsIn(s) == SelectSeq(s, LAMBDA c : c \in Operators)

C24_Conservation ==
    operation = "infixToPostfix" =>
        LET tokens == SelectSeq(expression, LAMBDA c : c \notin Whitespace)
        IN  /\ \A i \in 1..Len(steps) :
                  LET seen == SubSeq(tokens, 1, ProcessedAt(i))
                  IN  /\ OperandsOf(steps[i].output) = OperandsOf(seen)
                      /\ \A o \in Operators :
                            Occurrences(o, steps[i].output) + Occurrences(o, steps[i].stack)
                                = Occurrences(o, seen)
            /\ Balanced(expression) =>
                  /\ OperandsOf(result) = OperandsOf(tokens)
                  /\ \A o \in Operators : Occurrences(o, result) = Occurrences(o, tokens)
                  /\ Len(result) = Len(OperandsOf(tokens)) + Len(OperatorsIn(tokens))

C24_Witness ==
    /\ operation = "infixToPostfix"
    /\ expression = <<"A", "*", "B", "+", "C">>
    /\ steps[4].output = <<"A", "B", "*">> /\ steps[4].stack = <<"+">>
    /\ result = <<"A", "B", "*", "C", "+">>

====
